---- MODULE Spec2Model ----
(***************************************************************************)
(* The PowerVS provider-spec conversion of package capi2mapi: the three    *)
(* resource-reference converters, toProviderSpec, the payload encoder,     *)
(* ToMachine and ToMachineSet.  Every function is pure; a behaviour is one *)
(* call: Init draws the function and its arguments, the function's action  *)
(* runs the whole call and stores what it returned (or that it panicked).  *)
(***************************************************************************)
EXTENDS Integers, Sequences, FiniteSets, TLC

VARIABLES fn, args, out

vars == <<fn, args, out>>

\* Number of distinct non-empty string values the inputs draw from.
MaxStr == 1

-----------------------------------------------------------------------------
(* Go values.  A pointer (or an error interface value) is <<>> when nil    *)
(* and <<v>> when it points to v.  A nil map is the empty function.        *)

Nil == <<>>

Ptr(v) == <<v>>

Deref(p) == p[1]

Strings == {""} \cup {"v" \o ToString(i) : i \in 1..MaxStr}

PtrStrings == {Nil} \cup {Ptr(s) : s \in Strings}

\* capibmv1.IBMPowerVSResourceReference: three nilable string pointers.
ResourceReferences == [ID : PtrStrings, Name : PtrStrings, RegEx : PtrStrings]

\* corev1.LocalObjectReference.
LocalObjectReferences == [Name : Strings]

\* The values the inputs of ToMachine and ToMachineSet draw from: the empty
\* string and one other, and references with at most one of ID, Name, RegEx
\* populated (the shape the API documents for a reference).
SampleStrings == {"", "v1"}

SamplePtrStrings == {Nil} \cup {Ptr(s) : s \in SampleStrings}

TaggedReferences ==
    {r \in [ID : SamplePtrStrings, Name : SamplePtrStrings, RegEx : SamplePtrStrings] :
        Cardinality({f \in {"ID", "Name", "RegEx"} : r[f] # Nil}) <= 1}

\* metav1.ObjectMeta: labels and annotations, each absent or one entry.
CAPIObjectMetas ==
    [Labels : {<<>>, [tier |-> "worker"]}, Annotations : {<<>>, [note |-> "n"]}]

-----------------------------------------------------------------------------
(* Errors.                                                                 *)

errCAPIMachinePowerVSMachinePowerVSClusterCannotBeNil ==
    [Kind |-> "sentinel",
     Msg |-> "provided Machine, IBMPowerVSMachine and IBMPowerVSCluster can not be nil"]

errCAPIMachineSetPowerVSMachineTemplatePowerVSClusterCannotBeNil ==
    [Kind |-> "sentinel",
     Msg |-> "provided MachineSet, IBMPowerVSMachineTemplate and IBMPowerVSCluster can not be nil"]

\* field.Invalid(fldPath, value, detail): a *field.Error.
FieldInvalid(fldPath, value, detail) ==
    Ptr([Kind |-> "FieldValueInvalid", Field |-> fldPath,
         BadValue |-> value, Detail |-> detail])

\* utilerrors.NewAggregate(errlist): nil for an empty list, else an error
\* that wraps the list.
NewAggregate(errlist) ==
    IF Len(errlist) = 0 THEN Nil
    ELSE Ptr([Kind |-> "Aggregate", Errs |-> errlist])

\* A call that ended in a run-time panic (nil pointer dereference).
Panic(stages) == [status |-> "panic", ran |-> stages]

-----------------------------------------------------------------------------
(* The resource-reference converters.                                      *)

\* The zero mapiv1.PowerVSResource.
ZeroResource == [Type |-> "", ID |-> Nil, Name |-> Nil, RegEx |-> Nil]

RefResult(resource, err) ==
    [status |-> "returned", res |-> resource, err |-> err]

convertPowerVSNetworkToMAPI(fldPath, network) ==
    IF network.ID # Nil
    THEN RefResult([ZeroResource EXCEPT !.Type = "ID", !.ID = network.ID], Nil)
    ELSE IF network.Name # Nil
    THEN RefResult([ZeroResource EXCEPT !.Type = "Name", !.Name = network.Name], Nil)
    ELSE IF network.RegEx # Nil
    THEN RefResult([ZeroResource EXCEPT !.Type = "RegEx", !.RegEx = network.RegEx], Nil)
    ELSE RefResult(ZeroResource,
                   FieldInvalid(fldPath, network, "unable to convert network to MAPI"))

convertPowerVSImageToMAPI(fldPath, image, imageRef) ==
    IF image = Nil /\ imageRef = Nil
    THEN RefResult(ZeroResource,
                   FieldInvalid(fldPath, image,
                                "unable to convert image, image and imageref is nil"))
    ELSE IF image # Nil /\ Deref(image).ID # Nil
    THEN RefResult([ZeroResource EXCEPT !.Type = "ID", !.ID = Deref(image).ID], Nil)
    ELSE IF image # Nil /\ Deref(image).Name # Nil
    THEN RefResult([ZeroResource EXCEPT !.Type = "Name", !.Name = Deref(image).Name], Nil)
    ELSE IF image # Nil /\ Deref(image).RegEx # Nil
    THEN RefResult([ZeroResource EXCEPT !.Type = "RegEx", !.RegEx = Deref(image).RegEx], Nil)
    \* &imageRef.Name with a nil imageRef: nil pointer dereference.
    ELSE IF imageRef = Nil
    THEN Panic(<<>>)
    ELSE RefResult([ZeroResource EXCEPT !.Type = "Name",
                                        !.Name = Ptr(Deref(imageRef).Name)], Nil)

\* The converter with the structured reference consulted before the legacy
\* ServiceInstanceID.
convertPowerVSServiceInstanceToMAPI_StructuredFirst(fldPath, serviceInstanceID, serviceInstance) ==
    IF serviceInstance # Nil /\ Deref(serviceInstance).ID # Nil
    THEN RefResult([ZeroResource EXCEPT !.Type = "ID",
                                        !.ID = Deref(serviceInstance).ID], Nil)
    ELSE IF serviceInstance # Nil /\ Deref(serviceInstance).Name # Nil
    THEN RefResult([ZeroResource EXCEPT !.Type = "Name",
                                        !.Name = Deref(serviceInstance).Name], Nil)
    ELSE IF serviceInstance # Nil /\ Deref(serviceInstance).RegEx # Nil
    THEN RefResult([ZeroResource EXCEPT !.Type = "RegEx",
                                        !.RegEx = Deref(serviceInstance).RegEx], Nil)
    ELSE IF serviceInstanceID # ""
    THEN RefResult([ZeroResource EXCEPT !.Type = "ID", !.ID = Ptr(serviceInstanceID)], Nil)
    ELSE RefResult(ZeroResource,
                   FieldInvalid(fldPath, serviceInstance,
                                "unable to convert service instance to MAPI"))

convertPowerVSServiceInstanceToMAPI(fldPath, serviceInstanceID, serviceInstance) ==
    IF serviceInstanceID # ""
    THEN RefResult([ZeroResource EXCEPT !.Type = "ID", !.ID = Ptr(serviceInstanceID)], Nil)
    ELSE IF serviceInstance = Nil
    THEN RefResult(ZeroResource,
                   FieldInvalid(fldPath, serviceInstance,
                                "unable to convert service instance, service instance is nil"))
    ELSE IF Deref(serviceInstance).ID # Nil
    THEN RefResult([ZeroResource EXCEPT !.Type = "ID",
                                        !.ID = Deref(serviceInstance).ID], Nil)
    ELSE IF Deref(serviceInstance).Name # Nil
    THEN RefResult([ZeroResource EXCEPT !.Type = "Name",
                                        !.Name = Deref(serviceInstance).Name], Nil)
    ELSE IF Deref(serviceInstance).RegEx # Nil
    THEN RefResult([ZeroResource EXCEPT !.Type = "RegEx",
                                        !.RegEx = Deref(serviceInstance).RegEx], Nil)
    ELSE RefResult(ZeroResource,
                   FieldInvalid(fldPath, serviceInstance,
                                "unable to convert service instance to MAPI"))

-----------------------------------------------------------------------------
(* One call of a reference converter.                                      *)

Pending == [status |-> "pending"]

ServiceInstanceCalls ==
    [fldPath : {"spec.serviceInstance"},
     serviceInstanceID : Strings,
     serviceInstance : {Nil} \cup {Ptr(r) : r \in ResourceReferences}]

ImageCalls ==
    [fldPath : {"spec.image"},
     image : {Nil} \cup {Ptr(r) : r \in ResourceReferences},
     imageRef : {Nil} \cup {Ptr(r) : r \in LocalObjectReferences}]

NetworkCalls ==
    [fldPath : {"spec.network"}, network : ResourceReferences]

InitRefs ==
    /\ out = Pending
    /\ \/ fn = "convertPowerVSServiceInstanceToMAPI" /\ args \in ServiceInstanceCalls
       \/ fn = "convertPowerVSImageToMAPI" /\ args \in ImageCalls
       \/ fn = "convertPowerVSNetworkToMAPI" /\ args \in NetworkCalls

ConvertServiceInstance ==
    /\ fn = "convertPowerVSServiceInstanceToMAPI"
    /\ out = Pending
    /\ out' = convertPowerVSServiceInstanceToMAPI(
                  args.fldPath, args.serviceInstanceID, args.serviceInstance)
    /\ UNCHANGED <<fn, args>>

ConvertImage ==
    /\ fn = "convertPowerVSImageToMAPI"
    /\ out = Pending
    /\ out' = convertPowerVSImageToMAPI(args.fldPath, args.image, args.imageRef)
    /\ UNCHANGED <<fn, args>>

ConvertNetwork ==
    /\ fn = "convertPowerVSNetworkToMAPI"
    /\ out = Pending
    /\ out' = convertPowerVSNetworkToMAPI(args.fldPath, args.network)
    /\ UNCHANGED <<fn, args>>

NextRefs == ConvertServiceInstance \/ ConvertImage \/ ConvertNetwork

SpecRefs == InitRefs /\ [][NextRefs]_vars

-----------------------------------------------------------------------------
(* The inputs of ToMachine.                                                *)

\* capiv1.Machine, as far as the conversion reads it.  Unsupported stands
\* for the generic fields the metadata converter reports an error for.
CAPIMachineSpecs ==
    [Bootstrap : [DataSecretName : SamplePtrStrings], Unsupported : BOOLEAN]

CAPIMachines == [ObjectMeta : CAPIObjectMetas, Spec : CAPIMachineSpecs]

\* intstr.IntOrString: Type 0 is Int, 1 is String, anything else is invalid.
IntOrStrings ==
    {[Type |-> 0, IntVal |-> 1, StrVal |-> ""],
     [Type |-> 1, IntVal |-> 0, StrVal |-> "0.5"],
     [Type |-> 2, IntVal |-> 0, StrVal |-> ""]}

\* capibmv1.IBMPowerVSMachineSpec.
PowerVSMachineSpecs ==
    [ServiceInstanceID : SampleStrings,
     ServiceInstance : {Nil} \cup {Ptr(r) : r \in TaggedReferences},
     Image : {Nil} \cup {Ptr(r) : r \in TaggedReferences},
     ImageRef : {Nil} \cup {Ptr([Name |-> s]) : s \in SampleStrings},
     Network : TaggedReferences,
     SSHKey : {"key"},
     SystemType : {"s922"},
     ProcessorType : {"Shared"},
     Processors : IntOrStrings,
     MemoryGiB : {32}]

PowerVSMachines == [Spec : PowerVSMachineSpecs]

PowerVSClusters == [Name : {"cluster"}]

\* machineAndPowerVSMachineAndPowerVSCluster.
machineAndPowerVSMachineAndPowerVSCluster ==
    [machine : {Nil} \cup {Ptr(x) : x \in CAPIMachines},
     powerVSMachine : {Nil} \cup {Ptr(x) : x \in PowerVSMachines},
     powerVSCluster : {Nil} \cup {Ptr(x) : x \in PowerVSClusters}]

-----------------------------------------------------------------------------
(* toProviderSpec.                                                         *)

ProviderSpecResult(spec, warnings, err) ==
    [status |-> "returned", spec |-> spec, warnings |-> warnings, err |-> err]

toProviderSpec(m) ==
    IF m.machine = Nil \/ m.powerVSMachine = Nil \/ m.powerVSCluster = Nil
    THEN ProviderSpecResult(Nil, <<>>,
             Ptr(errCAPIMachinePowerVSMachinePowerVSClusterCannotBeNil))
    ELSE
    LET spec == Deref(m.powerVSMachine).Spec
        serviceInstance == convertPowerVSServiceInstanceToMAPI(
            "spec.serviceInstance", spec.ServiceInstanceID, spec.ServiceInstance)
        image == convertPowerVSImageToMAPI("spec.image", spec.Image, spec.ImageRef)
        network == convertPowerVSNetworkToMAPI("spec.network", spec.Network)
    IN
    IF image.status = "panic" THEN Panic(<<>>)
    ELSE
    LET \* The field errors are collected ...
        errors == serviceInstance.err \o image.err \o network.err
        \* ptr.Deref(m.machine.Spec.Bootstrap.DataSecretName, "")
        dataSecretName == Deref(m.machine).Spec.Bootstrap.DataSecretName
        userDataSecretName ==
            IF dataSecretName = Nil THEN "" ELSE Deref(dataSecretName)
        mapiProviderConfig ==
            [Kind |-> "PowerVSMachineProviderConfig",
             APIVersion |-> "machine.openshift.io/v1",
             ServiceInstance |-> serviceInstance.res,
             Image |-> image.res,
             Network |-> network.res,
             KeyPairName |-> spec.SSHKey,
             SystemType |-> spec.SystemType,
             ProcessorType |-> spec.ProcessorType,
             Processors |-> spec.Processors,
             MemoryGiB |-> spec.MemoryGiB,
             UserDataSecret |-> IF userDataSecretName # ""
                                THEN Ptr([Name |-> userDataSecretName])
                                ELSE Nil]
    IN  \* ... but the function returns a nil error whatever errors holds.
        ProviderSpecResult(Ptr(mapiProviderConfig), <<>>, Nil)

-----------------------------------------------------------------------------
(* The payload encoder.                                                    *)

\* json.Marshal of a mapiv1.PowerVSResource: every field is omitempty.
MarshalResource(r) ==
    (IF r.Type # "" THEN "type" :> r.Type ELSE <<>>)
    @@ (IF r.ID # Nil THEN "id" :> Deref(r.ID) ELSE <<>>)
    @@ (IF r.Name # Nil THEN "name" :> Deref(r.Name) ELSE <<>>)
    @@ (IF r.RegEx # Nil THEN "regex" :> Deref(r.RegEx) ELSE <<>>)

\* IntOrString.MarshalJSON: the int or the string, an error for any other Type.
MarshalIntOrString(p) ==
    IF p.Type = 0 THEN [value |-> Ptr(p.IntVal), err |-> Nil]
    ELSE IF p.Type = 1 THEN [value |-> Ptr(p.StrVal), err |-> Nil]
    ELSE [value |-> Nil,
          err |-> Ptr([Kind |-> "marshal", Msg |-> "impossible IntOrString.Type"])]

\* json.Marshal of a mapiv1.PowerVSMachineProviderConfig.
MarshalProviderConfig(c) ==
    LET processors == MarshalIntOrString(c.Processors)
    IN  IF processors.err # Nil
        THEN [bytes |-> Nil, err |-> processors.err]
        ELSE [bytes |-> Ptr(
                  (IF c.Kind # "" THEN "kind" :> c.Kind ELSE <<>>)
                  @@ (IF c.APIVersion # "" THEN "apiVersion" :> c.APIVersion ELSE <<>>)
                  @@ ("metadata" :> [creationTimestamp |-> "null"])
                  @@ (IF c.UserDataSecret # Nil
                      THEN "userDataSecret" :> [name |-> Deref(c.UserDataSecret).Name]
                      ELSE <<>>)
                  @@ ("serviceInstance" :> MarshalResource(c.ServiceInstance))
                  @@ ("image" :> MarshalResource(c.Image))
                  @@ ("network" :> MarshalResource(c.Network))
                  @@ ("keyPairName" :> c.KeyPairName)
                  @@ (IF c.SystemType # "" THEN "systemType" :> c.SystemType ELSE <<>>)
                  @@ (IF c.ProcessorType # ""
                      THEN "processorType" :> c.ProcessorType ELSE <<>>)
                  @@ ("processors" :> Deref(processors.value))
                  @@ (IF c.MemoryGiB # 0 THEN "memoryGiB" :> c.MemoryGiB ELSE <<>>)),
              err |-> Nil]

\* runtime.RawExtension{}: no bytes.
EmptyRawExtension == [Raw |-> Nil]

\* The encoder returning a RawExtension whose Raw was never assigned.
rawExtensionFromPowerVSProviderSpec_RawUnset(spec) ==
    IF spec = Nil
    THEN [ext |-> Ptr(EmptyRawExtension), err |-> Nil]
    ELSE LET marshalled == MarshalProviderConfig(Deref(spec))
         IN  IF marshalled.err # Nil
             THEN [ext |-> Nil,
                   err |-> Ptr([Kind |-> "wrapped",
                                Msg |-> "error marshalling providerSpec",
                                Err |-> Deref(marshalled.err)])]
             ELSE [ext |-> Ptr(EmptyRawExtension), err |-> Nil]

rawExtensionFromPowerVSProviderSpec(spec) ==
    IF spec = Nil
    THEN [ext |-> Ptr(EmptyRawExtension), err |-> Nil]
    ELSE LET marshalled == MarshalProviderConfig(Deref(spec))
         IN  IF marshalled.err # Nil
             THEN [ext |-> Nil,
                   err |-> Ptr([Kind |-> "wrapped",
                                Msg |-> "error marshalling providerSpec",
                                Err |-> Deref(marshalled.err)])]
             ELSE [ext |-> Ptr([Raw |-> marshalled.bytes]), err |-> Nil]

-----------------------------------------------------------------------------
(* ToMachine.                                                              *)

\* The generic metadata converter: the skeleton MAPI Machine (labels and
\* annotations carried over, provider-config slot not yet set) plus an error
\* for a machine carrying unsupported generic fields.
fromCAPIMachineToMAPIMachine(capiMachine) ==
    [machine |-> Ptr([ObjectMeta |-> [Labels |-> capiMachine.ObjectMeta.Labels,
                                      Annotations |-> capiMachine.ObjectMeta.Annotations],
                      Spec |-> [ProviderSpec |-> [Value |-> Nil]]]),
     err |-> IF capiMachine.Spec.Unsupported
             THEN Ptr([Kind |-> "metadata", Msg |-> "unsupported generic field"])
             ELSE Nil]

MachineResult(machine, warnings, err, stages) ==
    [status |-> "returned", machine |-> machine, warnings |-> warnings,
     err |-> err, ran |-> stages]

\* The stages of ToMachine, in call order.
AllStages ==
    <<"toProviderSpec", "fromCAPIMachineToMAPIMachine",
      "rawExtensionFromPowerVSProviderSpec">>

\* ToMachine with the nil check of the cluster left out.
ToMachine_NoClusterCheck(m) ==
    IF m.machine = Nil \/ m.powerVSMachine = Nil
    THEN MachineResult(Nil, <<>>,
             Ptr(errCAPIMachinePowerVSMachinePowerVSClusterCannotBeNil), <<>>)
    ELSE
    LET \* errors = append(errors, err) for each non-nil err, in call order;
        \* mapiMachine.Spec.ProviderSpec.Value = powerVSRawExt dereferences
        \* the converted Machine.
        Assemble(providerSpec, converted, encoded) ==
            IF converted.machine = Nil THEN Panic(AllStages)
            ELSE IF Len(providerSpec.err \o converted.err \o encoded.err) > 0
            THEN MachineResult(Nil, <<>> \o providerSpec.warnings,
                     NewAggregate(providerSpec.err \o converted.err \o encoded.err),
                     AllStages)
            ELSE MachineResult(
                     Ptr([Deref(converted.machine) EXCEPT
                              !.Spec.ProviderSpec.Value = encoded.ext]),
                     <<>> \o providerSpec.warnings, Nil, AllStages)
        Mapped(providerSpec) ==
            IF providerSpec.status = "panic" THEN Panic(<<"toProviderSpec">>)
            ELSE Assemble(providerSpec,
                          fromCAPIMachineToMAPIMachine(Deref(m.machine)),
                          rawExtensionFromPowerVSProviderSpec(providerSpec.spec))
    IN  Mapped(toProviderSpec(m))

ToMachine(m) ==
    IF m.machine = Nil \/ m.powerVSMachine = Nil \/ m.powerVSCluster = Nil
    THEN MachineResult(Nil, <<>>,
             Ptr(errCAPIMachinePowerVSMachinePowerVSClusterCannotBeNil), <<>>)
    ELSE
    LET \* errors = append(errors, err) for each non-nil err, in call order;
        \* mapiMachine.Spec.ProviderSpec.Value = powerVSRawExt dereferences
        \* the converted Machine.
        Assemble(providerSpec, converted, encoded) ==
            IF converted.machine = Nil THEN Panic(AllStages)
            ELSE IF Len(providerSpec.err \o converted.err \o encoded.err) > 0
            THEN MachineResult(Nil, <<>> \o providerSpec.warnings,
                     NewAggregate(providerSpec.err \o converted.err \o encoded.err),
                     AllStages)
            ELSE MachineResult(
                     Ptr([Deref(converted.machine) EXCEPT
                              !.Spec.ProviderSpec.Value = encoded.ext]),
                     <<>> \o providerSpec.warnings, Nil, AllStages)
        Mapped(providerSpec) ==
            IF providerSpec.status = "panic" THEN Panic(<<"toProviderSpec">>)
            ELSE Assemble(providerSpec,
                          fromCAPIMachineToMAPIMachine(Deref(m.machine)),
                          rawExtensionFromPowerVSProviderSpec(providerSpec.spec))
    IN  Mapped(toProviderSpec(m))

-----------------------------------------------------------------------------
(* One call of ToMachine or of the payload encoder.                        *)

\* The mapiv1.PowerVSResource values a converter can return.
PowerVSResources ==
    {ZeroResource}
    \cup {[ZeroResource EXCEPT !.Type = "ID", !.ID = Ptr(s)] : s \in Strings}
    \cup {[ZeroResource EXCEPT !.Type = "Name", !.Name = Ptr(s)] : s \in Strings}
    \cup {[ZeroResource EXCEPT !.Type = "RegEx", !.RegEx = Ptr(s)] : s \in Strings}

\* mapiv1.PowerVSMachineProviderConfig.
PowerVSMachineProviderConfigs ==
    [Kind : {"PowerVSMachineProviderConfig"},
     APIVersion : {"machine.openshift.io/v1"},
     ServiceInstance : PowerVSResources,
     Image : PowerVSResources,
     Network : PowerVSResources,
     KeyPairName : {"key"},
     SystemType : {"s922"},
     ProcessorType : {"Shared"},
     Processors : IntOrStrings,
     MemoryGiB : {32},
     UserDataSecret : {Nil} \cup {Ptr([Name |-> s]) : s \in Strings \ {""}}]

EncoderCalls ==
    [spec : {Nil} \cup {Ptr(c) : c \in PowerVSMachineProviderConfigs}]

InitMachine ==
    /\ out = Pending
    /\ \/ fn = "ToMachine" /\ args \in machineAndPowerVSMachineAndPowerVSCluster
       \/ fn = "rawExtensionFromPowerVSProviderSpec" /\ args \in EncoderCalls

CallToMachine ==
    /\ fn = "ToMachine"
    /\ out = Pending
    /\ out' = ToMachine(args)
    /\ UNCHANGED <<fn, args>>

CallRawExtension ==
    /\ fn = "rawExtensionFromPowerVSProviderSpec"
    /\ out = Pending
    /\ out' = [status |-> "returned"] @@ rawExtensionFromPowerVSProviderSpec(args.spec)
    /\ UNCHANGED <<fn, args>>

NextMachine == CallToMachine \/ CallRawExtension

SpecMachine == InitMachine /\ [][NextMachine]_vars

-----------------------------------------------------------------------------
(* ToMachineSet.                                                           *)

\* capiv1.MachineSet, as far as the conversion reads it.  Unsupported stands
\* for the set-level generic fields the metadata converter reports an error
\* for.
CAPIMachineSets ==
    [Spec : [Template : [ObjectMeta : CAPIObjectMetas, Spec : CAPIMachineSpecs],
             Unsupported : BOOLEAN]]

\* capibmv1.IBMPowerVSMachineTemplate.
PowerVSMachineTemplates == [Spec : [Template : [Spec : PowerVSMachineSpecs]]]

WrapperResult(wrapper) == [status |-> "returned", wrapper |-> wrapper]

\* The wrapper built without the template's labels and annotations in the
\* synthesized Machine.
FromMachineSetAndPowerVSMachineTemplateAndPowerVSCluster_NoMetadata(ms, mts, pc) ==
    IF ms = Nil \/ mts = Nil
    THEN Panic(<<"FromMachineSetAndPowerVSMachineTemplateAndPowerVSCluster">>)
    ELSE WrapperResult(
        [machineSet |-> ms,
         template |-> mts,
         powerVSCluster |-> pc,
         machineAndPowerVSMachineAndPowerVSCluster |->
             Ptr([machine |-> Ptr(
                      [ObjectMeta |-> [Labels |-> <<>>, Annotations |-> <<>>],
                       Spec |-> Deref(ms).Spec.Template.Spec]),
                  powerVSMachine |-> Ptr([Spec |-> Deref(mts).Spec.Template.Spec]),
                  powerVSCluster |-> pc])])

FromMachineSetAndPowerVSMachineTemplateAndPowerVSCluster(ms, mts, pc) ==
    \* ms.Spec... and mts.Spec... are read while the wrapper is built.
    IF ms = Nil \/ mts = Nil
    THEN Panic(<<"FromMachineSetAndPowerVSMachineTemplateAndPowerVSCluster">>)
    ELSE WrapperResult(
        [machineSet |-> ms,
         template |-> mts,
         powerVSCluster |-> pc,
         machineAndPowerVSMachineAndPowerVSCluster |->
             Ptr([machine |-> Ptr(
                      [ObjectMeta |->
                           [Labels |-> Deref(ms).Spec.Template.ObjectMeta.Labels,
                            Annotations |->
                                Deref(ms).Spec.Template.ObjectMeta.Annotations],
                       Spec |-> Deref(ms).Spec.Template.Spec]),
                  powerVSMachine |-> Ptr([Spec |-> Deref(mts).Spec.Template.Spec]),
                  powerVSCluster |-> pc])])

\* The set-level generic metadata converter: the skeleton MAPI MachineSet
\* plus an error for a set carrying unsupported generic fields.
fromCAPIMachineSetToMAPIMachineSet(capiMachineSet) ==
    [machineSet |-> Ptr(
         [Spec |-> [Template |->
              [ObjectMeta |->
                   [Labels |-> capiMachineSet.Spec.Template.ObjectMeta.Labels,
                    Annotations |->
                        capiMachineSet.Spec.Template.ObjectMeta.Annotations],
               Spec |-> [ProviderSpec |-> [Value |-> Nil]]]]]),
     err |-> IF capiMachineSet.Spec.Unsupported
             THEN Ptr([Kind |-> "metadata", Msg |-> "unsupported set-level field"])
             ELSE Nil]

MachineSetResult(machineSet, warnings, err, stages) ==
    [status |-> "returned", machineSet |-> machineSet, warnings |-> warnings,
     err |-> err, ran |-> stages]

ToMachineSet(m) ==
    IF \/ m.machineSet = Nil
       \/ m.template = Nil
       \/ m.powerVSCluster = Nil
       \/ m.machineAndPowerVSMachineAndPowerVSCluster = Nil
    THEN MachineSetResult(Nil, <<>>,
             Ptr(errCAPIMachineSetPowerVSMachineTemplatePowerVSClusterCannotBeNil),
             <<>>)
    ELSE
    LET stages == <<"ToMachine", "fromCAPIMachineSetToMAPIMachineSet">>
        \* mapiMachineSet.Spec.Template.Spec = mapiPowerVSMachine.Spec
        \* dereferences both the converted MachineSet and the Machine that
        \* ToMachine returned.
        Assemble(mapiPowerVSMachine, converted) ==
            IF converted.machineSet = Nil \/ mapiPowerVSMachine.machine = Nil
            THEN Panic(stages)
            ELSE IF Len(mapiPowerVSMachine.err \o converted.err) > 0
            THEN MachineSetResult(Nil, <<>> \o mapiPowerVSMachine.warnings,
                     NewAggregate(mapiPowerVSMachine.err \o converted.err), stages)
            ELSE MachineSetResult(
                     Ptr([Deref(converted.machineSet) EXCEPT
                              !.Spec.Template.Spec =
                                  Deref(mapiPowerVSMachine.machine).Spec,
                              !.Spec.Template.ObjectMeta.Annotations =
                                  Deref(mapiPowerVSMachine.machine).ObjectMeta.Annotations,
                              !.Spec.Template.ObjectMeta.Labels =
                                  Deref(mapiPowerVSMachine.machine).ObjectMeta.Labels]),
                     <<>> \o mapiPowerVSMachine.warnings, Nil, stages)
        Converted(mapiPowerVSMachine) ==
            IF mapiPowerVSMachine.status = "panic" THEN Panic(<<"ToMachine">>)
            ELSE Assemble(mapiPowerVSMachine,
                          fromCAPIMachineSetToMAPIMachineSet(Deref(m.machineSet)))
    IN  Converted(ToMachine(Deref(m.machineAndPowerVSMachineAndPowerVSCluster)))

-----------------------------------------------------------------------------
(* One MachineSet conversion: wrap the inputs, then call ToMachineSet.     *)

MachineSetCalls ==
    [ms : {Nil} \cup {Ptr(x) : x \in CAPIMachineSets},
     mts : {Nil} \cup {Ptr(x) : x \in PowerVSMachineTemplates},
     pc : {Nil} \cup {Ptr(x) : x \in PowerVSClusters}]

ConvertMachineSet(ms, mts, pc) ==
    LET wrapped == FromMachineSetAndPowerVSMachineTemplateAndPowerVSCluster(ms, mts, pc)
    IN  IF wrapped.status = "panic" THEN wrapped ELSE ToMachineSet(wrapped.wrapper)

InitMachineSet ==
    /\ out = Pending
    /\ fn = "ToMachineSet"
    /\ args \in MachineSetCalls

CallToMachineSet ==
    /\ fn = "ToMachineSet"
    /\ out = Pending
    /\ out' = ConvertMachineSet(args.ms, args.mts, args.pc)
    /\ UNCHANGED <<fn, args>>

NextMachineSet == CallToMachineSet

SpecMachineSet == InitMachineSet /\ [][NextMachineSet]_vars

-----------------------------------------------------------------------------
(* Properties of the reference converters (SpecRefs).                      *)

TagOrder == <<"ID", "Name", "RegEx">>

Supplies(ref) == \E i \in 1..3 : ref[TagOrder[i]] # Nil

FirstTag(ref) ==
    TagOrder[CHOOSE i \in 1..3 :
                 /\ ref[TagOrder[i]] # Nil
                 /\ \A j \in 1..(i - 1) : ref[TagOrder[j]] = Nil]

Tagged(tag, value) ==
    [Type |-> tag,
     ID |-> IF tag = "ID" THEN value ELSE Nil,
     Name |-> IF tag = "Name" THEN value ELSE Nil,
     RegEx |-> IF tag = "RegEx" THEN value ELSE Nil]

ExactlyOneTag(res) ==
    /\ res.Type \in {"ID", "Name", "RegEx"}
    /\ \A t \in {"ID", "Name", "RegEx"} : (res[t] # Nil) <=> (t = res.Type)

RefConverters ==
    {"convertPowerVSServiceInstanceToMAPI", "convertPowerVSImageToMAPI",
     "convertPowerVSNetworkToMAPI"}

\* C6: reference resolution is first-match in one fixed order.  A non-empty
\* legacy ServiceInstanceID yields tag ID with that value whatever the
\* structured reference holds; otherwise, and for network and image, the
\* first non-nil of ID, Name, RegEx of the structured reference gives the tag
\* and the value; the imageRef name is used (tag Name) only when the
\* structured image reference supplies none of the three.
C6_ResolutionOrder ==
    /\ (/\ fn = "convertPowerVSServiceInstanceToMAPI"
        /\ out.status # "pending"
        /\ args.serviceInstanceID # "")
       => /\ out.status = "returned"
          /\ out.err = Nil
          /\ out.res = Tagged("ID", Ptr(args.serviceInstanceID))
    /\ (/\ fn = "convertPowerVSServiceInstanceToMAPI"
        /\ out.status # "pending"
        /\ args.serviceInstanceID = ""
        /\ args.serviceInstance # Nil
        /\ Supplies(Deref(args.serviceInstance)))
       => /\ out.status = "returned"
          /\ out.err = Nil
          /\ out.res = Tagged(FirstTag(Deref(args.serviceInstance)),
                              Deref(args.serviceInstance)[
                                  FirstTag(Deref(args.serviceInstance))])
    /\ (/\ fn = "convertPowerVSNetworkToMAPI"
        /\ out.status # "pending"
        /\ Supplies(args.network))
       => /\ out.status = "returned"
          /\ out.err = Nil
          /\ out.res = Tagged(FirstTag(args.network),
                              args.network[FirstTag(args.network)])
    /\ (/\ fn = "convertPowerVSImageToMAPI"
        /\ out.status # "pending"
        /\ args.image # Nil
        /\ Supplies(Deref(args.image)))
       => /\ out.status = "returned"
          /\ out.err = Nil
          /\ out.res = Tagged(FirstTag(Deref(args.image)),
                              Deref(args.image)[FirstTag(Deref(args.image))])
    /\ (/\ fn = "convertPowerVSImageToMAPI"
        /\ out.status # "pending"
        /\ args.image = Nil \/ ~Supplies(Deref(args.image))
        /\ args.imageRef # Nil)
       => /\ out.status = "returned"
          /\ out.err = Nil
          /\ out.res = Tagged("Name", Ptr(Deref(args.imageRef).Name))

\* C6 witness: a service instance with a legacy ID and a structured
\* reference naming something else resolved to the legacy ID.
C6_Witness ==
    /\ fn = "convertPowerVSServiceInstanceToMAPI"
    /\ out.status = "returned"
    /\ args.serviceInstanceID # ""
    /\ args.serviceInstance # Nil
    /\ Deref(args.serviceInstance).ID = Ptr("")
    /\ Deref(args.serviceInstance).Name # Nil
    /\ out.res.Type = "ID"
    /\ out.res.ID = Ptr(args.serviceInstanceID)

\* C9: each reference converter is total.  For every combination of nil and
\* non-nil arguments it returns normally, with either a reference carrying
\* exactly one tag or a field validation error at its own field path.
C9_ConvertersTotal ==
    (fn \in RefConverters /\ out.status # "pending")
    => /\ out.status = "returned"
       /\ \/ out.err = Nil /\ ExactlyOneTag(out.res)
          \/ /\ out.err # Nil
             /\ Deref(out.err).Kind = "FieldValueInvalid"
             /\ Deref(out.err).Field = args.fldPath

-----------------------------------------------------------------------------
(* Properties of ToMachine and of the payload encoder (SpecMachine).       *)

TripleNonNil(m) ==
    m.machine # Nil /\ m.powerVSMachine # Nil /\ m.powerVSCluster # Nil

\* The field paths of the references of an IBMPowerVSMachineSpec that no
\* resolution rule resolves.
UnresolvedFields(spec) ==
    {f \in {"spec.serviceInstance", "spec.image", "spec.network"} :
        \/ /\ f = "spec.serviceInstance"
           /\ spec.ServiceInstanceID = ""
           /\ spec.ServiceInstance = Nil \/ ~Supplies(Deref(spec.ServiceInstance))
        \/ /\ f = "spec.image"
           /\ spec.Image = Nil \/ ~Supplies(Deref(spec.Image))
           /\ spec.ImageRef = Nil
        \/ /\ f = "spec.network"
           /\ ~Supplies(spec.Network)}

\* The field paths of the field errors an error holds, aggregates unfolded.
RECURSIVE ReportedFields(_)
ReportedFields(e) ==
    IF e.Kind = "Aggregate"
    THEN UNION {ReportedFields(e.Errs[i]) : i \in 1..Len(e.Errs)}
    ELSE IF e.Kind = "FieldValueInvalid" THEN {e.Field} ELSE {}

\* The errors an error holds: the members of an aggregate, else itself.
Members(e) ==
    IF e.Kind = "Aggregate" THEN {e.Errs[i] : i \in 1..Len(e.Errs)} ELSE {e}

\* The decoded payload of the provider-config slot of a returned Machine.
Payload(machine) == Deref(Deref(Deref(machine).Spec.ProviderSpec.Value).Raw)

HasPayload(machine) ==
    /\ Deref(machine).Spec.ProviderSpec.Value # Nil
    /\ Deref(Deref(machine).Spec.ProviderSpec.Value).Raw # Nil

\* C1: for a non-nil triple, the error ToMachine returns holds one entry for
\* each of service instance, image and network that cannot be resolved; with
\* two or more of them unresolvable no Machine is returned and every one of
\* them is reported.
C1_EveryUnresolvedFieldReported ==
    (fn = "ToMachine" /\ out.status = "returned" /\ TripleNonNil(args))
    => LET unresolved == UnresolvedFields(Deref(args.powerVSMachine).Spec)
       IN  /\ unresolved # {}
              => /\ out.err # Nil
                 /\ unresolved \subseteq ReportedFields(Deref(out.err))
           /\ Cardinality(unresolved) >= 2 => out.machine = Nil

\* C2: whenever ToMachine returns a Machine with no error, each of the three
\* resource references of the encoded provider config has exactly one of
\* ID, Name, RegEx set, and that value is non-empty.
C2_ExactlyOneNonEmptyTag ==
    (fn = "ToMachine" /\ out.status = "returned" /\ out.machine # Nil /\ out.err = Nil)
    => /\ HasPayload(out.machine)
       /\ \A k \in {"serviceInstance", "image", "network"} :
              LET ref == Payload(out.machine)[k]
                  set == DOMAIN ref \cap {"id", "name", "regex"}
              IN  /\ Cardinality(set) = 1
                  /\ \A t \in set : ref[t] # ""

\* C3: if any of machine, IBMPowerVSMachine, IBMPowerVSCluster is nil,
\* ToMachine returns a nil Machine, no warnings and exactly the sentinel
\* precondition error, before any of the three stages has run.
C3_NilTripleRejected ==
    (fn = "ToMachine" /\ out.status # "pending" /\ ~TripleNonNil(args))
    => /\ out.status = "returned"
       /\ out.machine = Nil
       /\ out.warnings = <<>>
       /\ out.err = Ptr(errCAPIMachinePowerVSMachinePowerVSClusterCannotBeNil)
       /\ out.ran = <<>>

\* C3 witness: a call whose only nil member is the cluster was rejected with
\* the sentinel.
C3_Witness ==
    /\ fn = "ToMachine"
    /\ out.status = "returned"
    /\ args.machine # Nil
    /\ args.powerVSMachine # Nil
    /\ args.powerVSCluster = Nil
    /\ out.err = Ptr(errCAPIMachinePowerVSMachinePowerVSClusterCannotBeNil)

\* C5: for every non-nil triple ToMachine runs all three stages and returns
\* either a Machine and a nil error, when no stage reported an error, or a
\* nil Machine and an aggregate error holding the error of every stage that
\* failed.
C5_MachineXorAggregate ==
    (fn = "ToMachine" /\ out.status # "pending" /\ TripleNonNil(args))
    => /\ out.status = "returned"
       /\ out.ran = AllStages
       /\ LET mapped == toProviderSpec(args)
              converted == fromCAPIMachineToMAPIMachine(Deref(args.machine))
              encoded == rawExtensionFromPowerVSProviderSpec(mapped.spec)
              failed == {e \in {mapped.err, converted.err, encoded.err} : e # Nil}
          IN  \/ /\ failed = {}
                 /\ out.machine # Nil
                 /\ out.err = Nil
              \/ /\ failed # {}
                 /\ out.machine = Nil
                 /\ out.err # Nil
                 /\ Deref(out.err).Kind = "Aggregate"
                 /\ \A e \in failed : Deref(e) \in Members(Deref(out.err))

\* C10: every Machine ToMachine returns with no error has its provider-config
\* slot populated with a non-empty envelope stamped with the kind and the
\* apiVersion of the PowerVS provider config; the encoder produces the empty
\* envelope only for a nil config, with no error.
C10_EnvelopeStamped ==
    /\ (fn = "ToMachine" /\ out.status = "returned"
        /\ out.machine # Nil /\ out.err = Nil)
       => /\ HasPayload(out.machine)
          /\ "kind" \in DOMAIN Payload(out.machine)
          /\ Payload(out.machine).kind = "PowerVSMachineProviderConfig"
          /\ "apiVersion" \in DOMAIN Payload(out.machine)
          /\ Payload(out.machine).apiVersion = "machine.openshift.io/v1"
    /\ (fn = "rawExtensionFromPowerVSProviderSpec" /\ out.status = "returned"
        /\ out.ext = Ptr(EmptyRawExtension))
       => args.spec = Nil /\ out.err = Nil

\* C10 witness: ToMachine returned a Machine whose slot holds a stamped
\* payload.
C10_Witness ==
    /\ fn = "ToMachine"
    /\ out.status = "returned"
    /\ out.machine # Nil
    /\ out.err = Nil
    /\ HasPayload(out.machine)
    /\ Payload(out.machine).kind = "PowerVSMachineProviderConfig"

-----------------------------------------------------------------------------
(* Properties of the MachineSet conversion (SpecMachineSet).               *)

\* The single-machine view of a MachineSet conversion: the template's
\* labels, annotations and spec as a Machine, the infrastructure template's
\* spec as an IBMPowerVSMachine, and the cluster.
SynthesizedView(ms, mts, pc) ==
    [machine |-> Ptr([ObjectMeta |-> Deref(ms).Spec.Template.ObjectMeta,
                      Spec |-> Deref(ms).Spec.Template.Spec]),
     powerVSMachine |-> Ptr([Spec |-> Deref(mts).Spec.Template.Spec]),
     powerVSCluster |-> pc]

SetArgsNonNil == args.ms # Nil /\ args.mts # Nil /\ args.pc # Nil

\* C4: a MachineSet conversion with a nil machineSet, template or cluster
\* returns the MachineSet precondition error, a nil MachineSet and nothing
\* else, before anything is converted.
C4_NilSetRejected ==
    (fn = "ToMachineSet" /\ out.status # "pending" /\ ~SetArgsNonNil)
    => /\ out.status = "returned"
       /\ out.machineSet = Nil
       /\ out.warnings = <<>>
       /\ out.err =
              Ptr(errCAPIMachineSetPowerVSMachineTemplatePowerVSClusterCannotBeNil)
       /\ out.ran = <<>>

\* C7: for every MachineSet conversion that succeeds, the template spec
\* (provider-config envelope included), template labels and template
\* annotations of the returned MachineSet equal the spec, labels and
\* annotations of the Machine ToMachine returns for the single-machine view
\* of the same inputs.
C7_TemplateMatchesMachine ==
    (fn = "ToMachineSet" /\ out.status = "returned"
     /\ out.machineSet # Nil /\ out.err = Nil)
    => LET single == ToMachine(SynthesizedView(args.ms, args.mts, args.pc))
           template == Deref(out.machineSet).Spec.Template
       IN  /\ single.status = "returned"
           /\ single.machine # Nil
           /\ template.Spec = Deref(single.machine).Spec
           /\ template.ObjectMeta.Labels = Deref(single.machine).ObjectMeta.Labels
           /\ template.ObjectMeta.Annotations =
                  Deref(single.machine).ObjectMeta.Annotations

\* C7 witness: a conversion succeeded for a template carrying a label and an
\* annotation, and the set's template holds a payload.
C7_Witness ==
    /\ fn = "ToMachineSet"
    /\ out.status = "returned"
    /\ out.machineSet # Nil
    /\ out.err = Nil
    /\ Deref(args.ms).Spec.Template.ObjectMeta.Labels # <<>>
    /\ Deref(args.ms).Spec.Template.ObjectMeta.Annotations # <<>>
    /\ Deref(out.machineSet).Spec.Template.ObjectMeta.Labels # <<>>
    /\ Deref(out.machineSet).Spec.Template.Spec.ProviderSpec.Value # Nil

\* C8: when the per-machine conversion inside ToMachineSet reports an error,
\* ToMachineSet still runs the set-level metadata conversion and the copy
\* into the template, and returns normally: a nil MachineSet, the warnings,
\* and an aggregate error holding the per-machine error and any set-level
\* error.
C8_MachineErrorAggregated ==
    (fn = "ToMachineSet" /\ out.status # "pending" /\ SetArgsNonNil)
    => LET single == ToMachine(SynthesizedView(args.ms, args.mts, args.pc))
           converted == fromCAPIMachineSetToMAPIMachineSet(Deref(args.ms))
       IN  (single.status = "returned" /\ single.err # Nil)
           => /\ out.status = "returned"
              /\ out.ran = <<"ToMachine", "fromCAPIMachineSetToMAPIMachineSet">>
              /\ out.machineSet = Nil
              /\ out.warnings = single.warnings
              /\ out.err # Nil
              /\ Deref(out.err).Kind = "Aggregate"
              /\ Deref(single.err) \in Members(Deref(out.err))
              /\ converted.err # Nil
                 => Deref(converted.err) \in Members(Deref(out.err))

====
